---- MODULE Spec2Model ----
(***************************************************************************)
(* The App component of the bank-statement converter (src/src/App.tsx) and *)
(* the file extractor (src/unnamed/part_000) as a state machine.           *)
(*                                                                         *)
(* React state is the VARIABLES below.  Every action is one task of the    *)
(* browser's event loop: a user event handler, the continuation of an      *)
(* awaited promise, or a timer callback, followed by the re-render React   *)
(* performs for the batched updates and the passive effects of that render *)
(* (RenderEffects).  A handler reads the values captured by the render it  *)
(* belongs to (its closure) and queues updates on the committed state; the *)
(* store handlers are therefore operators of (closure, store).             *)
(***************************************************************************)
EXTENDS Integers, Sequences, FiniteSets, TLC

\* ---------------------------------------------------------------- bounds
\* Snapshots in the history, plus operations in flight and reset timers not
\* yet fired, beyond which further mutations are cut off.
MaxHistory == 3
\* Rows a result may hold before handleTransactionAdd is cut off.
MaxTx == 2
\* Operations in flight plus reset timers not yet fired.
MaxPending == 2

\* ------------------------------------------------------------ JS values
\* An optional value (undefined, null or NaN when absent): <<>> or <<v>>.
None == <<>>
Some(v) == <<v>>
IsSome(o) == o # None
\* `x || 0` for an optional number.
OrZero(o) == IF o = None THEN 0 ELSE o[1]
\* `x || d` for an optional string: absent and '' both give d.
OrDefault(o, d) == IF o = None \/ o = Some("") THEN d ELSE o[1]

Abs(n) == IF n < 0 THEN 0 - n ELSE n
Min(a, b) == IF a < b THEN a ELSE b
Last(s) == s[Len(s)]
\* Array.prototype.slice(0, -1)
Front(s) == SubSeq(s, 1, Len(s) - 1)

\* ------------------------------------------- numbers as decimal strings
\* A string is a sequence of one-character strings.
DigitChars == <<"0", "1", "2", "3", "4", "5", "6", "7", "8", "9">>
DigitValue(c) == CHOOSE d \in 0..9 : DigitChars[d + 1] = c
IsDigit(c) == \E d \in 0..9 : DigitChars[d + 1] = c

RECURSIVE Digits(_)
Digits(n) == IF n < 10 THEN <<DigitChars[n + 1]>>
             ELSE Digits(n \div 10) \o <<DigitChars[(n % 10) + 1]>>
\* Number.prototype.toString() of an integer.
NumberToString(n) == IF n < 0 THEN <<"-">> \o Digits(0 - n) ELSE Digits(n)

RECURSIVE DigitPrefix(_)
\* The longest prefix of digits.
DigitPrefix(s) == IF s = <<>> \/ ~IsDigit(Head(s)) THEN <<>>
                  ELSE <<Head(s)>> \o DigitPrefix(Tail(s))
RECURSIVE DigitsToNumber(_, _)
DigitsToNumber(s, acc) == IF s = <<>> THEN acc
                          ELSE DigitsToNumber(Tail(s), acc * 10 + DigitValue(Head(s)))
\* parseFloat on strings without '.', exponent or blanks: an optional sign,
\* then the longest run of digits; NaN (None) when there is no digit.
ParseFloat(s) ==
    LET neg  == s # <<>> /\ Head(s) = "-"
        body == IF s # <<>> /\ Head(s) \in {"-", "+"} THEN Tail(s) ELSE s
        ds   == DigitPrefix(body)
    IN  IF ds = <<>> THEN None
        ELSE Some(IF neg THEN 0 - DigitsToNumber(ds, 0) ELSE DigitsToNumber(ds, 0))

RECURSIVE StripDots(_)
\* value.replace(/\./g, '')
StripDots(s) == IF s = <<>> THEN <<>>
                ELSE IF Head(s) = "." THEN StripDots(Tail(s))
                ELSE <<Head(s)>> \o StripDots(Tail(s))

\* ------------------------------------------------------------ data model
\* Transaction: transactionCode, date, description (strings), debit, credit
\* (numbers), fee, vat (optional numbers).
NumericFields == {"debit", "credit", "fee", "vat"}
OptionalFields == {"fee", "vat"}
StringFields == {"transactionCode", "date", "description"}

\* A row that a field edit created past the end of the rows holds the edited
\* field only: reading another of its fields gives undefined.
Defined(tx, field) == field \in DOMAIN tx

\* The amount a reduction adds for a field: tx.debit, tx.credit, tx.fee || 0,
\* tx.vat || 0.
Amount(tx, field) ==
    IF field \in OptionalFields
    THEN IF Defined(tx, field) THEN OrZero(tx[field]) ELSE 0
    ELSE tx[field]

\* Adding an undefined debit or credit makes the accumulator, and with it the
\* calculated ending balance, NaN.
TotalsNaN(transactions) ==
    \E i \in 1..Len(transactions) :
        ~Defined(transactions[i], "debit") \/ ~Defined(transactions[i], "credit")

RECURSIVE Total(_, _)
\* transactions.reduce(...) for one of the four accumulators.
Total(transactions, field) ==
    IF transactions = <<>> THEN 0
    ELSE Amount(Head(transactions), field) + Total(Tail(transactions), field)

\* ------------------------------------------------- balance cross-check
\* The mismatch message: its three interpolated amounts.
Message(calculated, stated) ==
    [calculated |-> calculated, stated |-> stated, difference |-> calculated - stated]

CalculatedEndingBalance(openingBal, transactions) ==
    openingBal + Total(transactions, "debit") - Total(transactions, "credit")
               - Total(transactions, "fee") - Total(transactions, "vat")

\* (a variant: the tolerance test written >= 1)
MismatchFromOne(calculated, stated) == Abs(calculated - stated) >= 1
\* Math.abs(calculatedEndingBalance - endingBalance) > 1
Mismatch(calculated, stated) == Abs(calculated - stated) > 1
\* The same test on the transactions: Math.abs(NaN) > 1 is false.
Mismatches(openingBal, transactions, stated) ==
    /\ ~TotalsNaN(transactions)
    /\ Mismatch(CalculatedEndingBalance(openingBal, transactions), stated)

\* handleSubmit's cross-check of the returned data: the warning it sets, or
\* `prev` where it sets none.
CrossCheck(data, prev) ==
    IF IsSome(data.endingBalance) /\ data.endingBalance[1] # 0
    THEN LET calculated == CalculatedEndingBalance(OrZero(data.openingBalance),
                                                   data.transactions)
         IN  IF Mismatches(OrZero(data.openingBalance), data.transactions,
                           data.endingBalance[1])
             THEN Some(Message(calculated, data.endingBalance[1]))
             ELSE prev
    ELSE prev

\* The effect on [result, openingBalance]: the warning after it has run.
RecalculateWarning(res, opening, prev) ==
    IF res = None THEN None
    ELSE LET r == res[1]
         IN  IF IsSome(r.endingBalance) /\ r.endingBalance[1] # 0
             THEN LET calculated == CalculatedEndingBalance(OrZero(ParseFloat(opening)),
                                                            r.transactions)
                  IN  IF Mismatches(OrZero(ParseFloat(opening)), r.transactions,
                                    r.endingBalance[1])
                      THEN Some(Message(calculated, r.endingBalance[1]))
                      ELSE None
             ELSE prev

\* ------------------------------------------------- editable result store
\* A store is [result, history]; a closure is the store as rendered.

\* handleTransactionUpdate and handleTransactionStringUpdate: index is the
\* 0-based row, value a number for a numeric field and a string otherwise.
FieldValue(field, value) == IF field \in OptionalFields THEN Some(value) ELSE value
\* { ...updatedTransactions[index] } with [field] = value: the copy of a row
\* that does not exist is {}.
WithField(tx, field, value) ==
    IF Defined(tx, field) THEN [tx EXCEPT ![field] = FieldValue(field, value)]
    ELSE [f \in DOMAIN tx \cup {field} |->
             IF f = field THEN FieldValue(field, value) ELSE tx[f]]
NoRow == [f \in {} |-> 0]
RowAt(transactions, index) ==
    IF index \in 0..(Len(transactions) - 1) THEN transactions[index + 1] ELSE NoRow
\* updatedTransactions[index] = row on the copied array: an index within the
\* rows replaces one, the index just past them appends one, a negative index
\* sets a property that is no element (an index further out would leave
\* holes: the indices drawn stop at the length).
SetAt(transactions, index, row) ==
    IF index \in 0..(Len(transactions) - 1) THEN [transactions EXCEPT ![index + 1] = row]
    ELSE IF index = Len(transactions) THEN Append(transactions, row)
    ELSE transactions

\* (a variant: the snapshot is taken after the update instead of before)
TransactionUpdateSnapshotAfter(closure, store, index, field, value) ==
    IF closure.result = None THEN store
    ELSE LET r  == closure.result[1]
             updated == [r EXCEPT !.transactions =
                            SetAt(@, index, WithField(RowAt(@, index), field, value))]
         IN  [result |-> Some(updated), history |-> Append(store.history, updated)]
TransactionUpdate(closure, store, index, field, value) ==
    IF closure.result = None THEN store
    ELSE LET r  == closure.result[1]
             updatedTransactions ==
                 SetAt(r.transactions, index,
                       WithField(RowAt(r.transactions, index), field, value))
         IN  [result  |-> Some([r EXCEPT !.transactions = updatedTransactions]),
              history |-> Append(store.history, r)]

\* The row handleTransactionAdd builds from a partial transaction; `today`
\* is new Date().toLocaleDateString('vi-VN').
\* (a variant first: an absent date is left blank)
NewTransactionBlankDate(transaction, today) ==
    [transactionCode |-> OrDefault(transaction.transactionCode, ""),
     date            |-> OrDefault(transaction.date, ""),
     description     |-> OrDefault(transaction.description, "Giao dich moi"),
     debit           |-> OrZero(transaction.debit),
     credit          |-> OrZero(transaction.credit),
     fee             |-> Some(OrZero(transaction.fee)),
     vat             |-> Some(OrZero(transaction.vat))]
NewTransaction(transaction, today) ==
    [transactionCode |-> OrDefault(transaction.transactionCode, ""),
     date            |-> OrDefault(transaction.date, today),
     description     |-> OrDefault(transaction.description, "Giao dich moi"),
     debit           |-> OrZero(transaction.debit),
     credit          |-> OrZero(transaction.credit),
     fee             |-> Some(OrZero(transaction.fee)),
     vat             |-> Some(OrZero(transaction.vat))]

TransactionAdd(closure, store, transaction, today) ==
    IF closure.result = None THEN store
    ELSE LET r == closure.result[1]
         IN  [result  |-> Some([r EXCEPT !.transactions =
                                    Append(@, NewTransaction(transaction, today))]),
              history |-> Append(store.history, r)]

\* (variants: the guard written < 1; the first snapshot restored, not the last)
UndoLastChangeGuardBelowOne(closure, store) ==
    IF Len(closure.history) < 1 THEN store
    ELSE [result  |-> Some(Last(closure.history)),
          history |-> Front(store.history)]
UndoLastChangeToFirst(closure, store) ==
    IF Len(closure.history) <= 1 THEN store
    ELSE [result  |-> Some(Head(closure.history)),
          history |-> Front(store.history)]
\* handleUndoLastChange
UndoLastChange(closure, store) ==
    IF Len(closure.history) <= 1 THEN store
    ELSE [result  |-> Some(Last(closure.history)),
          history |-> Front(store.history)]

\* ----------------------------------------------------------------- text
\* Text is a sequence of tokens: a word, or the blank "\n".
Blank == "\n"
RECURSIVE TrimStart(_)
TrimStart(t) == IF t # <<>> /\ Head(t) = Blank THEN TrimStart(Tail(t)) ELSE t
RECURSIVE TrimEnd(_)
TrimEnd(t) == IF t # <<>> /\ Last(t) = Blank THEN TrimEnd(Front(t)) ELSE t
\* String.prototype.trim()
Trim(t) == TrimEnd(TrimStart(t))

RECURSIVE Join(_, _)
\* Array.prototype.join(sep) of an array of strings.
Join(texts, sep) ==
    IF texts = <<>> THEN <<>>
    ELSE IF Len(texts) = 1 THEN texts[1]
    ELSE texts[1] \o sep \o Join(Tail(texts), sep)

RECURSIVE Flatten(_)
\* Array.prototype.flat() of an array of arrays.
Flatten(ss) == IF ss = <<>> THEN <<>> ELSE Head(ss) \o Flatten(Tail(ss))

\* allTexts.join's separator: '\n\n--- TACH BIET SAO KE ---\n\n'
Separator == <<Blank, Blank, "--- TACH BIET SAO KE ---", Blank, Blank>>

\* -------------------------------------------------------- file extractor
PdfType == "application/pdf"
\* file.type.startsWith('image/'), over the image types the file input accepts.
IsImageType(type) == type \in {"image/png", "image/jpeg", "image/bmp"}

\* What extractFromFile resolves with.  A file is [name, type, content]:
\* content is the pages of a PDF, the one blob of an image, the decoded text
\* of anything else.
ExtractFromFile(file) ==
    IF file.type = PdfType
    THEN [text   |-> None,
          images |-> [i \in 1..Len(file.content) |->
                         [mimeType |-> "image/png", data |-> file.content[i]]]]
    ELSE IF IsImageType(file.type)
    THEN [text |-> None, images |-> <<[mimeType |-> file.type, data |-> file.content[1]]>>]
    ELSE [text |-> Some(file.content), images |-> <<>>]

RECURSIVE Truthy(_)
\* results.map(r => r.text).filter(Boolean): null and '' are dropped.
Truthy(texts) ==
    IF texts = <<>> THEN <<>>
    ELSE IF Head(texts) = None \/ Head(texts) = Some(<<>>) THEN Truthy(Tail(texts))
    ELSE <<Head(texts)[1]>> \o Truthy(Tail(texts))

Results(files) == [i \in 1..Len(files) |-> ExtractFromFile(files[i])]
\* (a variant: the texts taken last file first)
AllTextsReversed(files) ==
    Truthy([i \in 1..Len(files) |-> Results(files)[Len(files) + 1 - i].text])
AllTexts(files) == Truthy([i \in 1..Len(files) |-> Results(files)[i].text])
\* (a variant: the images taken last file first)
AllImagesReversed(files) ==
    Flatten([i \in 1..Len(files) |-> Results(files)[Len(files) + 1 - i].images])
AllImages(files) == Flatten([i \in 1..Len(files) |-> Results(files)[i].images])
CombinedText(files) == Join(AllTexts(files), Separator)

\* The label handleFileChange shows for the selected files.
FileNameLabel(files) ==
    IF Len(files) <= 3
    THEN Join([i \in 1..Len(files) |-> <<files[i].name>>], <<", ">>)
    ELSE Digits(Len(files)) \o <<" tep da chon">>

\* ------------------------------------------------------------- progress
ProgressCap == 95
ProgressDone == 100
\* Math.random() * 5 is below 5: the largest whole step of one tick.
TickStep == 4
\* Interval callbacks that run back to back in one ProgressTicks step.
TicksPerStep == 12

\* ---------------------------------------------------------------- inputs
\* What processStatement may return.
TxA == [transactionCode |-> "FT01", date |-> "01/02/2024", description |-> "Thu tien",
        debit |-> 5, credit |-> 0, fee |-> None, vat |-> None]
Responses ==
    { [accountInfo |-> "acc", openingBalance |-> Some(10), endingBalance |-> Some(12),
       transactions |-> <<TxA>>],
      [accountInfo |-> "acc", openingBalance |-> None, endingBalance |-> Some(0),
       transactions |-> <<>>] }
\* What a rejected call throws: an Error with its message, or something else
\* (message is then String(err)).
Thrown == { [isError |-> TRUE, message |-> <<"Request failed">>],
            [isError |-> FALSE, message |-> <<"[object ProgressEvent]">>] }

\* The files the user selects from, and the text the OCR call may return.
FileA == [name |-> "a.txt", type |-> "text/plain", content |-> <<"A">>]
FileP == [name |-> "p.png", type |-> "image/png", content |-> <<"png-bytes">>]
Batches == { <<FileA>>, <<FileP>> }
OcrTexts == { <<"O">> }

\* A wider choice of files: a second text, a text that starts with a blank
\* line, an empty text file, a PDF of two pages.
FileB == [name |-> "b.txt", type |-> "text/plain", content |-> <<"B">>]
FileW == [name |-> "w.txt", type |-> "text/plain", content |-> <<Blank, "W">>]
FileE == [name |-> "e.txt", type |-> "text/plain", content |-> <<>>]
FileD == [name |-> "d.pdf", type |-> PdfType, content |-> <<"page-1", "page-2">>]
FileBatches == { <<FileA, FileB>>, <<FileW, FileE, FileB>>, <<FileD, FileP>>,
                 <<FileA, FileD>> }

\* What the user types: into the statement box, into the opening balance box.
TypedContents == { <<>> }
TypedBalances == { <<>>, <<"1", ".", "2">>, <<"x">> }

\* Field edits and additions the table and the assistant issue.
EditedNumericFields == { "debit", "fee" }
EditedStringFields == { "description" }
NumericValues == { 1 }
StringValues == { "z" }
NoFields == [transactionCode |-> None, date |-> None, description |-> None,
             debit |-> None, credit |-> None, fee |-> None, vat |-> None]
Additions == { [NoFields EXCEPT !.credit = Some(3)] }
Today == "03/11/2026"

\* ----------------------------------------------------------------- state
VARIABLES
    openingBalance,          \* useState(''): a decimal string
    statementContent,        \* useState(localStorage.statementContent || '')
    fileName,                \* useState(localStorage.fileName || '')
    loadingState,            \* 'idle' | 'extracting' | 'processing'
    progress,                \* useState(0)
    error,                   \* useState(null): None or Some(message)
    result,                  \* useState(null): None or Some(GeminiResponse)
    balanceMismatchWarning,  \* useState(null): None or Some(Message)
    history,                 \* useState([])
    progressInterval,        \* whether the interval of progressInterval.current runs
    extractions,             \* handleFileChange calls awaiting, oldest first, each
                             \* with the arguments of its extractTextFromContent calls
    processing,              \* handleSubmit calls awaiting processStatement
    resetTimers,             \* finishProgress timeouts not yet fired
    lastCall,                \* the store handler the last task ran, "" if none
    trail                    \* the stores after the AI result and after each
                             \* mutation not yet undone, oldest first

vars == <<openingBalance, statementContent, fileName, loadingState, progress, error,
          result, balanceMismatchWarning, history, progressInterval, extractions,
          processing, resetTimers, lastCall, trail>>

store == [result |-> result, history |-> history]
isLoading == loadingState # "idle"
InFlight == processing + Len(extractions)

\* What localStorage may hold at start-up.
Stored == { [fileName |-> <<>>, statementContent |-> <<>>],
            [fileName |-> <<"a.txt">>, statementContent |-> <<"A">>] }

Init ==
    /\ \E st \in Stored : fileName = st.fileName /\ statementContent = st.statementContent
    /\ openingBalance = <<>>
    /\ loadingState = "idle"
    /\ progress = 0
    /\ error = None
    /\ result = None
    /\ balanceMismatchWarning = None
    /\ history = <<>>
    /\ progressInterval = FALSE
    /\ extractions = <<>>
    /\ processing = 0
    /\ resetTimers = 0
    /\ lastCall = ""
    /\ trail = <<>>

\* ------------------------------------------------------ render, progress
\* The effect on [result, openingBalance] of the render that follows a task:
\* it runs when setResult was given a new object or the balance string
\* changed, on the warning `warn` the task itself left.
RenderEffects(resultSet, res, opening, warn) ==
    IF resultSet \/ opening # openingBalance
    THEN RecalculateWarning(res, opening, warn)
    ELSE warn

\* startProgress
StartProgress ==
    /\ progress' = 0
    /\ progressInterval' = TRUE

\* (a variant: no timeout is set)
FinishProgressWithoutTimeout ==
    /\ progressInterval' = FALSE
    /\ progress' = ProgressDone
    /\ resetTimers' = resetTimers
\* finishProgress: the timeout it sets is ResetTimeout.
FinishProgress ==
    /\ progressInterval' = FALSE
    /\ progress' = ProgressDone
    /\ resetTimers' = resetTimers + 1

\* The callback of startProgress's interval, TicksPerStep times in a row or
\* until the cap is reached; at the cap the next callback clears the interval.
ProgressTicks ==
    /\ progressInterval
    /\ IF progress >= ProgressCap
       THEN progress' = ProgressCap /\ progressInterval' = FALSE
       ELSE /\ progress' = Min(progress + TicksPerStep * TickStep, ProgressCap)
            /\ UNCHANGED progressInterval
    /\ lastCall' = ""
    /\ UNCHANGED <<openingBalance, statementContent, fileName, loadingState, error,
                   result, balanceMismatchWarning, history, extractions, processing,
                   resetTimers, trail>>

\* The callback of finishProgress's setTimeout.
ResetTimeout ==
    /\ resetTimers > 0
    /\ resetTimers' = resetTimers - 1
    /\ loadingState' = "idle"
    /\ progress' = 0
    /\ lastCall' = ""
    /\ UNCHANGED <<openingBalance, statementContent, fileName, error, result,
                   balanceMismatchWarning, history, progressInterval, extractions,
                   processing, trail>>

\* ------------------------------------------------------- handleFileChange
\* The input sits in a block with pointer-events-none while isLoading.
HandleFileChange(files) ==
    /\ ~isLoading
    /\ Len(files) > 0
    /\ InFlight + resetTimers < MaxPending
    /\ result' = None
    /\ statementContent' = <<>>
    /\ openingBalance' = <<>>
    /\ balanceMismatchWarning' = RenderEffects(result # None, None, <<>>, None)
    /\ loadingState' = "extracting"
    /\ error' = None
    /\ StartProgress
    /\ fileName' = FileNameLabel(files)
    /\ extractions' = Append(extractions, [files |-> files, done |-> {}, stage |-> "files",
                                           ocr |-> <<>>])
    /\ lastCall' = ""
    /\ trail' = <<>>
    /\ UNCHANGED <<history, processing, resetTimers>>

Without(seq, b) == [i \in 1..(Len(seq) - 1) |-> IF i < b THEN seq[i] ELSE seq[i + 1]]

\* One file's extractFromFile promise resolves.
ExtractFromFileResolve(b, i) ==
    /\ b \in 1..Len(extractions)
    /\ extractions[b].stage = "files"
    /\ i \in 1..Len(extractions[b].files) \ extractions[b].done
    /\ extractions' = [extractions EXCEPT ![b].done = @ \cup {i}]
    /\ lastCall' = ""
    /\ UNCHANGED <<openingBalance, statementContent, fileName, loadingState, progress,
                   error, result, balanceMismatchWarning, history, progressInterval,
                   processing, resetTimers, trail>>

\* handleFileChange's finally block.
FileChangeFinally ==
    /\ FinishProgress
    /\ loadingState' = "idle"

\* handleFileChange's catch block, then finally.
FileChangeCatch(b, thrown) ==
    /\ error' = Some(<<"Loi doc file: ">> \o thrown.message)
    /\ fileName' = <<>>
    /\ FileChangeFinally
    /\ extractions' = Without(extractions, b)
    /\ UNCHANGED <<openingBalance, statementContent, result, balanceMismatchWarning,
                   history, processing, trail>>

\* One file's extractFromFile promise rejects: Promise.all rejects with it.
ExtractFromFileReject(b, i, thrown) ==
    /\ b \in 1..Len(extractions)
    /\ extractions[b].stage = "files"
    /\ i \in 1..Len(extractions[b].files) \ extractions[b].done
    /\ FileChangeCatch(b, thrown)
    /\ lastCall' = ""

\* Promise.all resolves: the texts are joined; with images the OCR call is
\* awaited, without any the text is stored.
PromiseAllResolve(b) ==
    /\ b \in 1..Len(extractions)
    /\ extractions[b].stage = "files"
    /\ extractions[b].done = 1..Len(extractions[b].files)
    /\ IF Len(AllImages(extractions[b].files)) > 0
       THEN /\ extractions' =
                   [extractions EXCEPT ![b].stage = "images",
                                       ![b].ocr = Append(@, AllImages(extractions[b].files))]
            /\ UNCHANGED <<statementContent, loadingState, progress, progressInterval,
                           resetTimers>>
       ELSE /\ statementContent' = Trim(CombinedText(extractions[b].files))
            /\ FileChangeFinally
            /\ extractions' = Without(extractions, b)
    /\ lastCall' = ""
    /\ UNCHANGED <<openingBalance, fileName, error, result, balanceMismatchWarning,
                   history, processing, trail>>

\* extractTextFromContent resolves.
ExtractTextResolve(b, textFromImages) ==
    /\ b \in 1..Len(extractions)
    /\ extractions[b].stage = "images"
    /\ statementContent' =
           Trim(CombinedText(extractions[b].files) \o <<Blank, Blank>> \o textFromImages)
    /\ FileChangeFinally
    /\ extractions' = Without(extractions, b)
    /\ lastCall' = ""
    /\ UNCHANGED <<openingBalance, fileName, error, result, balanceMismatchWarning,
                   history, processing, trail>>

\* extractTextFromContent rejects.
ExtractTextReject(b, thrown) ==
    /\ b \in 1..Len(extractions)
    /\ extractions[b].stage = "images"
    /\ FileChangeCatch(b, thrown)
    /\ lastCall' = ""

\* ----------------------------------------------------------- handleSubmit
EmptyStatementError == <<"Khong co noi dung sao ke de xu ly.">>
UnknownError == <<"Da xay ra loi khong xac dinh khi xu ly sao ke.">>

\* (a variant: the statement is never taken to be empty)
NeverEmpty(content) == FALSE
\* !statementContent
IsEmpty(content) == content = <<>>
\* (a variant: the new result is appended to the history kept so far)
AppendedHistory(data) == Append(history, data)
\* (a variant: the history is left empty)
EmptyHistory(data) == <<>>
\* setHistory([data])
InitialHistory(data) == <<data>>

\* The click on the submit button; the button is disabled while isLoading.
\* (It is disabled while the statement is empty too; the handler's own
\* validation of that case is what the first branch runs.)
HandleSubmit ==
    /\ ~isLoading
    /\ \/ /\ IsEmpty(statementContent)
          /\ error' = Some(EmptyStatementError)
          /\ lastCall' = ""
          /\ UNCHANGED <<openingBalance, statementContent, fileName, loadingState,
                         progress, result, balanceMismatchWarning, history,
                         progressInterval, extractions, processing, resetTimers, trail>>
       \/ /\ ~IsEmpty(statementContent)
          /\ InFlight + resetTimers < MaxPending
          /\ loadingState' = "processing"
          /\ error' = None
          /\ result' = None
          /\ balanceMismatchWarning' =
                 RenderEffects(result # None, None, openingBalance, None)
          /\ history' = <<>>
          /\ StartProgress
          /\ processing' = processing + 1
          /\ lastCall' = ""
          /\ trail' = <<>>
          /\ UNCHANGED <<openingBalance, statementContent, fileName, extractions,
                         resetTimers>>

\* data.openingBalance?.toString() ?? '0'
OpeningBalanceString(data) ==
    IF data.openingBalance = None THEN <<"0">> ELSE NumberToString(data.openingBalance[1])

\* processStatement resolves with data: the rest of the try block, then finally.
ProcessStatementResolve(data) ==
    /\ processing > 0
    /\ processing' = processing - 1
    /\ openingBalance' = OpeningBalanceString(data)
    /\ result' = Some(data)
    /\ history' = InitialHistory(data)
    /\ balanceMismatchWarning' =
           RenderEffects(TRUE, Some(data), OpeningBalanceString(data),
                         CrossCheck(data, balanceMismatchWarning))
    /\ FinishProgress
    /\ lastCall' = ""
    /\ trail' = <<[result |-> Some(data), history |-> <<data>>]>>
    /\ UNCHANGED <<statementContent, fileName, loadingState, error, extractions>>

\* processStatement rejects: the catch block, then finally.
ProcessStatementReject(thrown) ==
    /\ processing > 0
    /\ processing' = processing - 1
    /\ error' = Some(IF thrown.isError THEN thrown.message ELSE UnknownError)
    /\ FinishProgress
    /\ lastCall' = ""
    /\ UNCHANGED <<openingBalance, statementContent, fileName, loadingState, result,
                   balanceMismatchWarning, history, extractions, trail>>

\* ------------------------------------------------------------ user input
\* onChange of the statement textarea (inside the pointer-events-none block).
HandleStatementContentChange(value) ==
    /\ ~isLoading
    /\ statementContent' = value
    /\ lastCall' = ""
    /\ UNCHANGED <<openingBalance, fileName, loadingState, progress, error, result,
                   balanceMismatchWarning, history, progressInterval, extractions,
                   processing, resetTimers, trail>>

\* onChange of the opening balance input: dots are dropped; the value is kept
\* when it parses as a number or is empty.
HandleOpeningBalanceChange(typed) ==
    /\ ~isLoading
    /\ LET value == StripDots(typed)
       IN  /\ openingBalance' = IF IsSome(ParseFloat(value)) \/ value = <<>>
                                THEN value ELSE openingBalance
           /\ balanceMismatchWarning' =
                  RenderEffects(FALSE, result, openingBalance', balanceMismatchWarning)
    /\ lastCall' = ""
    /\ UNCHANGED <<statementContent, fileName, loadingState, progress, error, result,
                   history, progressInterval, extractions, processing, resetTimers,
                   trail>>

\* ------------------------------------------------------- store handlers
\* A store handler run on the current render's closure, then the render.
Mutate(next, call) ==
    /\ result' = next.result
    /\ history' = next.history
    /\ balanceMismatchWarning' =
           RenderEffects(next.result # result \/ next.history # history,
                         next.result, openingBalance, balanceMismatchWarning)
    /\ lastCall' = call
    /\ UNCHANGED <<openingBalance, statementContent, fileName, loadingState, progress,
                   error, progressInterval, extractions, processing, resetTimers>>

\* The table and the assistant are rendered only while a result is shown.
HandleTransactionUpdate(index, field, value) ==
    /\ result # None
    /\ Len(history) + InFlight + resetTimers < MaxHistory
    /\ Mutate(TransactionUpdate(store, store, index, field, value),
              "handleTransactionUpdate")
    /\ trail' = Append(trail, [result |-> result', history |-> history'])

HandleTransactionStringUpdate(index, field, value) ==
    /\ result # None
    /\ Len(history) + InFlight + resetTimers < MaxHistory
    /\ Mutate(TransactionUpdate(store, store, index, field, value),
              "handleTransactionStringUpdate")
    /\ trail' = Append(trail, [result |-> result', history |-> history'])

HandleTransactionAdd(transaction) ==
    /\ result # None
    /\ Len(result[1].transactions) < MaxTx
    /\ Len(history) + InFlight + resetTimers < MaxHistory
    /\ Mutate(TransactionAdd(store, store, transaction, Today), "handleTransactionAdd")
    /\ trail' = Append(trail, [result |-> result', history |-> history'])

HandleUndoLastChange ==
    /\ result # None
    /\ Mutate(UndoLastChange(store, store), "handleUndoLastChange")
    /\ trail' = IF Len(trail) > 1 THEN Front(trail) ELSE trail

\* The indices the table passes: those of the rows it shows.
RowIndices ==
    IF result = None THEN {} ELSE 0..(Len(result[1].transactions) - 1)

\* The assistant's reply may hold several mutations: it calls the handlers it
\* was rendered with one after the other in one task, so each reads the
\* result of the same render while the queued updates apply in order.
AssistantCalls ==
    { [op |-> "update", index |-> 0, field |-> "debit", value |-> 1],
      [op |-> "update", index |-> 0, field |-> "description", value |-> "z"] }
    \cup { [op |-> "add", transaction |-> t] : t \in Additions }
Call(call, closure, current) ==
    IF call.op = "add" THEN TransactionAdd(closure, current, call.transaction, Today)
    ELSE TransactionUpdate(closure, current, call.index, call.field, call.value)
Callable(call) ==
    IF call.op = "add" THEN Len(result[1].transactions) < MaxTx
    ELSE call.index \in RowIndices
AssistantBatch(first, second) ==
    /\ result # None
    /\ Callable(first) /\ Callable(second)
    /\ Len(history) + InFlight + resetTimers + 1 < MaxHistory
    /\ LET afterFirst  == Call(first, store, store)
           afterSecond == Call(second, store, afterFirst)
       IN  /\ Mutate(afterSecond, "assistantBatch")
           /\ trail' = Append(Append(trail, afterFirst), afterSecond)

\* ------------------------------------------------------------------ spec
Next ==
    \/ \E files \in Batches : HandleFileChange(files)
    \/ \E b \in 1..MaxPending, i \in 1..3 : ExtractFromFileResolve(b, i)
    \/ \E b \in 1..MaxPending, i \in 1..3, thrown \in Thrown :
           ExtractFromFileReject(b, i, thrown)
    \/ \E b \in 1..MaxPending : PromiseAllResolve(b)
    \/ \E b \in 1..MaxPending, text \in OcrTexts : ExtractTextResolve(b, text)
    \/ \E b \in 1..MaxPending, thrown \in Thrown : ExtractTextReject(b, thrown)
    \/ HandleSubmit
    \/ \E data \in Responses : ProcessStatementResolve(data)
    \/ \E thrown \in Thrown : ProcessStatementReject(thrown)
    \/ ProgressTicks
    \/ ResetTimeout
    \/ \E value \in TypedContents : HandleStatementContentChange(value)
    \/ \E typed \in TypedBalances : HandleOpeningBalanceChange(typed)
    \/ \E index \in RowIndices, field \in EditedNumericFields, value \in NumericValues :
           HandleTransactionUpdate(index, field, value)
    \/ \E index \in RowIndices, field \in EditedStringFields, value \in StringValues :
           HandleTransactionStringUpdate(index, field, value)
    \/ \E transaction \in Additions : HandleTransactionAdd(transaction)
    \/ HandleUndoLastChange

Spec == Init /\ [][Next]_vars

\* Every awaited promise settles and every timeout fires.
ProcessStatementSettles ==
    \/ \E data \in Responses : ProcessStatementResolve(data)
    \/ \E thrown \in Thrown : ProcessStatementReject(thrown)
ExtractionAdvances ==
    \/ \E b \in 1..MaxPending, i \in 1..3 : ExtractFromFileResolve(b, i)
    \/ \E b \in 1..MaxPending : PromiseAllResolve(b)
    \/ \E b \in 1..MaxPending, text \in OcrTexts : ExtractTextResolve(b, text)
LiveSpec ==
    /\ Spec
    /\ WF_vars(ResetTimeout)
    /\ WF_vars(ProcessStatementSettles)
    /\ WF_vars(ExtractionAdvances)

\* File selection on its own, the batches drawn from a wider set.
NextFiles ==
    \/ \E files \in FileBatches : HandleFileChange(files)
    \/ \E b \in 1..MaxPending, i \in 1..3 : ExtractFromFileResolve(b, i)
    \/ \E b \in 1..MaxPending, i \in 1..3, thrown \in Thrown :
           ExtractFromFileReject(b, i, thrown)
    \/ \E b \in 1..MaxPending : PromiseAllResolve(b)
    \/ \E b \in 1..MaxPending, text \in OcrTexts : ExtractTextResolve(b, text)
    \/ \E b \in 1..MaxPending, thrown \in Thrown : ExtractTextReject(b, thrown)
    \/ ResetTimeout
SpecFiles == Init /\ [][NextFiles]_vars

\* The result store on its own: the handlers as the table and the assistant
\* call them, singly and two in one task, with every field, with indices the assistant may pass beside
\* those of the rows (-1, and the index just past the rows while fewer than
\* MaxTx are held), and with partial, empty and complete additions.
AssistantIndices ==
    IF result = None THEN {}
    ELSE (-1)..Min(Len(result[1].transactions), MaxTx - 1)
FullTransaction ==
    [transactionCode |-> Some("FT09"), date |-> Some("05/02/2024"),
     description |-> Some("Phi"), debit |-> Some(0), credit |-> Some(2),
     fee |-> Some(1), vat |-> Some(0)]
StoreAdditions == Additions \cup {NoFields, FullTransaction}
NextStore ==
    \/ HandleSubmit
    \/ \E data \in Responses : ProcessStatementResolve(data)
    \/ ResetTimeout
    \/ \E index \in AssistantIndices, field \in NumericFields, value \in NumericValues :
           HandleTransactionUpdate(index, field, value)
    \/ \E index \in AssistantIndices, field \in StringFields, value \in StringValues :
           HandleTransactionStringUpdate(index, field, value)
    \/ \E transaction \in StoreAdditions : HandleTransactionAdd(transaction)
    \/ \E first \in AssistantCalls, second \in AssistantCalls : AssistantBatch(first, second)
    \/ HandleUndoLastChange
SpecStore == Init /\ [][NextStore]_vars

\* The cross-check on its own: one statement after another is processed, the
\* returned data drawn from a wider set, and the opening balance retyped.
CalcTransactions ==
    { [transactionCode |-> "FT", date |-> "01/02/2024", description |-> "x",
       debit |-> d, credit |-> c, fee |-> f, vat |-> v] :
         d \in {0, 500}, c \in {0, 1}, f \in {None, Some(1)}, v \in {None, Some(2)} }
CalcResponses ==
    { [accountInfo |-> "acc", openingBalance |-> o, endingBalance |-> e,
       transactions |-> ts] :
         o \in {None, Some(0), Some(1000)},
         e \in {None, Some(0), Some(-1), Some(1), Some(1400), Some(1499), Some(1500),
                Some(1502)},
         ts \in {<<>>} \cup {<<a>> : a \in CalcTransactions}
                       \cup {<<a, b>> : a, b \in CalcTransactions} }
NextCalc ==
    \/ HandleSubmit
    \/ \E data \in CalcResponses : ProcessStatementResolve(data)
    \/ ResetTimeout
    \/ \E typed \in TypedBalances : HandleOpeningBalanceChange(typed)
SpecCalc == Init /\ [][NextCalc]_vars

\* ============================================================== claims
\* The reconciliation as the specification words it.
StatedAmount(tx, field) ==
    IF field \in {"fee", "vat"} /\ tx[field] = None THEN 0
    ELSE IF field \in {"fee", "vat"} THEN tx[field][1] ELSE tx[field]
RECURSIVE Sigma(_, _, _)
Sigma(transactions, field, i) ==
    IF i > Len(transactions) THEN 0
    ELSE StatedAmount(transactions[i], field) + Sigma(transactions, field, i + 1)
ComputedEnding(opening, transactions) ==
    opening + Sigma(transactions, "debit", 1) - Sigma(transactions, "credit", 1)
            - Sigma(transactions, "fee", 1) - Sigma(transactions, "vat", 1)
Tolerated(computed, stated) == computed - stated \in {-1, 0, 1}
ExpectedWarning(opening, transactions, stated) ==
    IF Tolerated(ComputedEnding(opening, transactions), stated) THEN None
    ELSE Some([calculated |-> ComputedEnding(opening, transactions),
               stated     |-> stated,
               difference |-> ComputedEnding(opening, transactions) - stated])

\* The number the opening balance box holds: 0 when empty.
OpeningNumbers == {0, 10, 12, 1000}
OpeningNumber ==
    IF \E n \in OpeningNumbers : NumberToString(n) = openingBalance
    THEN CHOOSE n \in OpeningNumbers : NumberToString(n) = openingBalance
    ELSE 0
StatedEndingGiven ==
    /\ result # None
    /\ result[1].endingBalance # None
    /\ result[1].endingBalance[1] # 0

\* C1: at most one operation (an extraction or a processStatement call) is in
\* flight at any time, and while one is in flight loadingState is not idle.
C1_SingleOperationInFlight ==
    /\ InFlight <= 1
    /\ InFlight > 0 => isLoading

\* C2: after every task and its render, a warning is shown exactly when a
\* result is present, its ending balance is present and non-zero, and the
\* computed ending balance is more than 1 away from it.
C2_WarningIsDerived ==
    IsSome(balanceMismatchWarning) <=>
        /\ StatedEndingGiven
        /\ ~Tolerated(ComputedEnding(OpeningNumber, result[1].transactions),
                      result[1].endingBalance[1])

\* C4: when the result's stated ending balance is absent or 0, no mismatch
\* warning is shown.
C4_NoWarningWithoutStatedEnding ==
    (result # None /\ ~StatedEndingGiven) => balanceMismatchWarning = None

MutationCalls ==
    {"handleTransactionUpdate", "handleTransactionStringUpdate", "handleTransactionAdd"}

\* C5: with a result present, every field edit and every addition makes the
\* history one longer, and the entry pushed is the result as it was just before.
C5_MutationPushesPriorResult ==
    [][lastCall' \in MutationCalls =>
          /\ result # None
          /\ Len(history') = Len(history) + 1
          /\ SubSeq(history', 1, Len(history)) = history
          /\ Last(history') = result[1]]_vars
C5_Witness ==
    /\ lastCall \in MutationCalls
    /\ Len(history) = 3
    /\ Last(history) # history[1]

\* C6: undo with one snapshot or none in the history changes neither the
\* result nor the history, however often it is called.
C6_UndoAtBoundaryIsNoOp ==
    [][(lastCall' = "handleUndoLastChange" /\ Len(history) <= 1) =>
          (result' = result /\ history' = history)]_vars
C6_Witness ==
    /\ lastCall = "handleUndoLastChange"
    /\ result # None
    /\ Len(history) = 1

\* C7: after a successful submit and n mutations, k <= n undos leave the
\* result and the history exactly as they were after the first n - k
\* mutations (trail keeps those stores; its first entry is the AI result with
\* the history [result]).
C7_UndoIsLifo ==
    result # None => (trail # <<>> /\ store = Last(trail))
C7_Witness ==
    /\ lastCall = "handleUndoLastChange"
    /\ result # None
    /\ Len(trail) = 2
    /\ result[1] # trail[1].result[1]

\* C8: when processStatement succeeds the result becomes the returned
\* statement and the history exactly [result].
C8_NewResultResetsHistory ==
    [][\A data \in Responses :
          ProcessStatementResolve(data) =>
              (result' = Some(data) /\ history' = <<data>>)]_vars
C8_Witness ==
    /\ result # None
    /\ history = <<result[1]>>
    /\ loadingState = "processing"
    /\ progress = ProgressDone
    /\ processing = 0

\* C10: submitting with empty statement text reports the local error and
\* nothing else: processStatement is not called, loadingState stays idle, and
\* the result, history, warning and progress are unchanged.
C10_EmptySubmitOnlyReportsError ==
    [][(HandleSubmit /\ statementContent = <<>>) =>
          /\ error' = Some(EmptyStatementError)
          /\ processing' = processing
          /\ loadingState = "idle" /\ loadingState' = "idle"
          /\ UNCHANGED <<result, history, balanceMismatchWarning, progress>>]_vars
C10_Witness ==
    /\ error = Some(EmptyStatementError)
    /\ statementContent = <<>>
    /\ loadingState = "idle"
    /\ processing = 0

\* C3: with a stated ending balance present and non-zero, no warning is
\* produced when the computed ending balance is within 1 of it, and otherwise
\* the warning reports the computed balance, the stated balance and their
\* signed difference: by handleSubmit's cross-check of the returned data and
\* by the effect, for the opening balance in the box.
C3_CrossCheckWithinTolerance ==
    StatedEndingGiven =>
        /\ balanceMismatchWarning =
               ExpectedWarning(OpeningNumber, result[1].transactions,
                               result[1].endingBalance[1])
        /\ CrossCheck(result[1], None) =
               ExpectedWarning(OrZero(result[1].openingBalance), result[1].transactions,
                               result[1].endingBalance[1])
C3_Witness ==
    /\ result # None
    /\ Len(result[1].transactions) = 1
    /\ result[1].transactions[1].debit = 500
    /\ openingBalance = <<"1", "0", "0", "0">>
    /\ balanceMismatchWarning =
           Some([calculated |-> 1500, stated |-> 1400, difference |-> 100])

\* C9: once loadingState has left idle it returns to idle, whether the
\* awaited call resolves or rejects, and it leaves idle only when a new
\* operation is started.
C9_LoadingTerminates ==
    /\ isLoading ~> ~isLoading
    /\ [][(~isLoading /\ isLoading') => InFlight' = InFlight + 1]_vars
C9_Witness ==
    /\ ~isLoading
    /\ InFlight = 0
    /\ resetTimers = 0
    /\ progress = 0
    /\ error = Some(UnknownError)

\* A step in which a batch fails: one of its files' extractions rejects, or
\* the OCR call on its images does.
BatchFails ==
    \/ \E b \in 1..Len(extractions), i \in 1..3, thrown \in Thrown :
           ExtractFromFileReject(b, i, thrown)
    \/ \E b \in 1..Len(extractions), thrown \in Thrown : ExtractTextReject(b, thrown)

\* C11: when a batch fails, statementContent is empty afterwards, an error
\* message is set, the file-name label is cleared and loadingState is idle;
\* and text is stored only in a step of a batch all of whose files have been
\* extracted.
C11_BatchIsAllOrNothing ==
    [][/\ BatchFails =>
              /\ statementContent' = <<>>
              /\ error' # None
              /\ fileName' = <<>>
              /\ loadingState' = "idle"
       /\ (statementContent' # statementContent /\ statementContent' # <<>>) =>
              \E b \in 1..Len(extractions) :
                  extractions[b].done = 1..Len(extractions[b].files)]_vars

\* The texts of a batch of text files as the specification joins them.
IsTextBatch(files) == \A i \in 1..Len(files) : files[i].type = "text/plain"
RECURSIVE Concatenated(_)
Concatenated(texts) ==
    IF texts = <<>> THEN <<>>
    ELSE IF Len(texts) = 1 THEN Head(texts)
    ELSE Head(texts) \o Separator \o Concatenated(Tail(texts))
TextsOf(files) == [i \in 1..Len(files) |-> files[i].content]
NonEmptyTextsOf(files) == SelectSeq(TextsOf(files), LAMBDA t : t # <<>>)
\* A text without the blanks at its two ends.
WithoutEdgeBlanks(t) ==
    IF \A k \in 1..Len(t) : t[k] = Blank THEN <<>>
    ELSE LET lo == CHOOSE k \in 1..Len(t) :
                       t[k] # Blank /\ \A m \in 1..(k - 1) : t[m] = Blank
             hi == CHOOSE k \in 1..Len(t) :
                       t[k] # Blank /\ \A m \in (k + 1)..Len(t) : t[m] = Blank
         IN  SubSeq(t, lo, hi)

\* C12 as stated: the content stored for a batch of text files is the files'
\* texts in selection order with the separator between every two
\* consecutive files' texts.
C12_TextsJoinedInSelectionOrder ==
    [][\A b \in 1..Len(extractions) :
          (PromiseAllResolve(b) /\ IsTextBatch(extractions[b].files)) =>
              statementContent' = Concatenated(TextsOf(extractions[b].files))]_vars

\* C12 as amended: the content stored for a batch of text files is the
\* non-empty texts in selection order with the separator between every two
\* consecutive ones, without the blanks at the two ends of the whole, in
\* whatever order the extractions completed.
C12_NonEmptyTextsJoinedAndTrimmed ==
    [][\A b \in 1..Len(extractions) :
          (PromiseAllResolve(b) /\ IsTextBatch(extractions[b].files)) =>
              statementContent' =
                  WithoutEdgeBlanks(Concatenated(NonEmptyTextsOf(extractions[b].files)))]_vars
C12_Witness ==
    /\ statementContent = <<"W">> \o Separator \o <<"B">>
    /\ fileName = <<"w.txt", ", ", "e.txt", ", ", "b.txt">>
    /\ extractions = <<>>
    /\ progress = ProgressDone

\* The images of a batch as the specification orders them: file by file in
\* selection order, a PDF's pages in page order, one image per image file.
PagesOf(file) ==
    IF file.type = PdfType
    THEN [p \in 1..Len(file.content) |-> [mimeType |-> "image/png", data |-> file.content[p]]]
    ELSE IF file.type # "text/plain"
    THEN <<[mimeType |-> file.type, data |-> file.content[1]]>>
    ELSE <<>>
RECURSIVE ImagesFrom(_, _)
ImagesFrom(files, i) ==
    IF i > Len(files) THEN <<>> ELSE PagesOf(files[i]) \o ImagesFrom(files, i + 1)
OcrCallsAreRight ==
    \A b \in 1..Len(extractions) :
        LET e == extractions[b]
        IN  /\ Len(e.ocr) <= 1
            /\ (e.stage = "images") <=> (e.ocr # <<>>)
            /\ e.ocr # <<>> =>
                   /\ e.done = 1..Len(e.files)
                   /\ ImagesFrom(e.files, 1) # <<>>
                   /\ e.ocr[1] = ImagesFrom(e.files, 1)

\* C17: extractTextFromContent is called for a batch exactly when the batch
\* produced an image, at most once, only after every file of the batch has
\* been extracted, and with all images in file-selection order, each file's
\* pages in page order.
C17_OcrCallIffImages ==
    [][/\ OcrCallsAreRight'
       /\ \A b \in 1..Len(extractions) :
              PromiseAllResolve(b) =>
                  IF ImagesFrom(extractions[b].files, 1) # <<>>
                  THEN /\ Len(extractions') = Len(extractions)
                       /\ extractions'[b].ocr = <<ImagesFrom(extractions[b].files, 1)>>
                  ELSE /\ Len(extractions') = Len(extractions) - 1
                       /\ extractions[b].ocr = <<>>]_vars
C17_Witness ==
    \E b \in 1..Len(extractions) :
        /\ extractions[b].files = <<FileD, FileP>>
        /\ extractions[b].stage = "images"
        /\ Len(extractions[b].ocr) = 1
        /\ Len(extractions[b].ocr[1]) = 3
        /\ extractions[b].ocr[1][3].data = "png-bytes"

\* The value the specification gives a field of an added row: the one passed,
\* or the default when none is.
Given(o, default) == IF o = None THEN default ELSE o[1]
DefaultedRow(transaction) ==
    [transactionCode |-> Given(transaction.transactionCode, ""),
     date            |-> Given(transaction.date, Today),
     description     |-> Given(transaction.description, "Giao dich moi"),
     debit           |-> Given(transaction.debit, 0),
     credit          |-> Given(transaction.credit, 0),
     fee             |-> Some(Given(transaction.fee, 0)),
     vat             |-> Some(Given(transaction.vat, 0))]

\* C13: with a result present, handleTransactionAdd appends exactly one row
\* at the end of the transactions, leaves the rows before it (and the rest
\* of the result) unchanged, and gives every absent field its default: empty
\* code, today's date, the placeholder description, 0 for the amounts.
C13_AddAppendsDefaultedRow ==
    [][\A transaction \in StoreAdditions :
          HandleTransactionAdd(transaction) =>
              /\ result' # None
              /\ Len(result'[1].transactions) = Len(result[1].transactions) + 1
              /\ SubSeq(result'[1].transactions, 1, Len(result[1].transactions))
                     = result[1].transactions
              /\ Last(result'[1].transactions) = DefaultedRow(transaction)
              /\ [result'[1] EXCEPT !.transactions = result[1].transactions]
                     = result[1]]_vars
C13_Witness ==
    /\ lastCall = "handleTransactionAdd"
    /\ result # None
    /\ Len(result[1].transactions) = 2
    /\ result[1].transactions[1] = TxA
    /\ result[1].transactions[2] =
           [transactionCode |-> "", date |-> Today, description |-> "Giao dich moi",
            debit |-> 0, credit |-> 0, fee |-> Some(0), vat |-> Some(0)]

\* C14: once handleFileChange has reset the result, the history holds no
\* snapshot of the previous result: while no result is present the history
\* is empty, and an undo would restore nothing.
C14_HistoryClearedOnExtraction ==
    result = None =>
        /\ history = <<>>
        /\ UndoLastChange(store, store).result = None

\* A step that starts an operation.
OperationStarts ==
    \/ \E files \in Batches : HandleFileChange(files)
    \/ HandleSubmit /\ statementContent # <<>>

\* C15: progress is 0 when an operation starts, at most 95 (so never 100)
\* while an extraction or a processStatement call is pending, becomes 100
\* only in a step that completes an operation, and the delayed reset sets it
\* to 0 together with idle, never while a later operation is pending.
C15_ProgressCycle ==
    [][/\ OperationStarts => progress' = 0
       /\ InFlight' > 0 => progress' <= ProgressCap
       /\ (progress' = ProgressDone /\ progress # ProgressDone) => InFlight' < InFlight
       /\ ResetTimeout =>
              /\ progress' = 0
              /\ loadingState' = "idle"
              /\ InFlight = 0]_vars

\* C16: when processStatement fails a non-empty error message is shown, the
\* result and the history are empty, no mismatch warning is shown and the
\* reset to idle is under way; and the start of a new extraction or a new
\* processing clears the error of the operation before it.
C16_FailedProcessingIsAbandoned ==
    [][/\ (\E thrown \in Thrown : ProcessStatementReject(thrown)) =>
              /\ error' # None
              /\ error'[1] # <<>>
              /\ result' = None
              /\ history' = <<>>
              /\ balanceMismatchWarning' = None
              /\ (loadingState' = "idle" \/ resetTimers' > 0)
       /\ OperationStarts => error' = None]_vars

\* What a field edit of (index, field) may change, as the specification
\* frames it: nothing but that field of the row at that index.
OnlyFieldChanged(index, field) ==
    /\ result' # None
    /\ [result'[1] EXCEPT !.transactions = result[1].transactions] = result[1]
    /\ Len(result'[1].transactions) = Len(result[1].transactions)
    /\ \A j \in 1..Len(result[1].transactions) :
           IF j = index + 1
           THEN /\ DOMAIN result'[1].transactions[j] = DOMAIN result[1].transactions[j]
                /\ \A f \in DOMAIN result[1].transactions[j] \ {field} :
                       result'[1].transactions[j][f] = result[1].transactions[j][f]
           ELSE result'[1].transactions[j] = result[1].transactions[j]
    /\ SubSeq(history', 1, Len(history)) = history

\* C18: a field edit changes only the named field of the transaction at the
\* given index, for any index: the number of transactions, the other
\* transactions, the other fields of that transaction, accountInfo,
\* openingBalance and endingBalance are unchanged, and so are the snapshots
\* already in the history.
C18_EditChangesOnlyTheField ==
    [][/\ \A index \in AssistantIndices, field \in NumericFields, value \in NumericValues :
              HandleTransactionUpdate(index, field, value) => OnlyFieldChanged(index, field)
       /\ \A index \in AssistantIndices, field \in StringFields, value \in StringValues :
              HandleTransactionStringUpdate(index, field, value) =>
                  OnlyFieldChanged(index, field)]_vars

\* C19: no edit is lost: after two mutations issued back to back the result
\* is the one the second mutation gives on the result of the first, and the
\* history has gained the result before the first mutation and then the
\* result before the second.
C19_NoEditIsLost ==
    [][\A first \in AssistantCalls, second \in AssistantCalls :
          AssistantBatch(first, second) =>
              LET afterFirst == Call(first, store, store)
              IN  /\ history' = history \o <<result[1], afterFirst.result[1]>>
                  /\ result' = Call(second, afterFirst, afterFirst).result]_vars

\* C20: whenever a result is present the history is not empty, its first
\* entry is the statement the AI call returned for the results since, and
\* its length is 1 plus the number of mutations not yet undone (trail holds
\* the AI result's store and one store for each of those mutations).
C20_HistoryStartsAtAiResult ==
    result # None =>
        /\ history # <<>>
        /\ trail # <<>>
        /\ history[1] = trail[1].result[1]
        /\ trail[1].history = <<history[1]>>
        /\ Len(history) = Len(trail)
C20_Witness ==
    /\ lastCall = "handleUndoLastChange"
    /\ result # None
    /\ Len(history) = 2
    /\ Len(trail) = 2
    /\ result[1] # history[1]

====
